---- MODULE Spec2Model ----
(***************************************************************************)
(* Model of the Coadaptive trial controller (Code/controller_coadaptive.py).*)
(*                                                                         *)
(* One Coadaptive object is modelled: its fields start_time and            *)
(* feedback_mode, the monotonic clock it reads, and the commands it sends  *)
(* to the left and right boot.  Time is counted in whole seconds.  A call  *)
(* of a method is one step; the reads of time.monotonic() made inside one  *)
(* call observe the same second.                                           *)
(* In Spec every boot operation succeeds.  FixedCollins.check_time         *)
(* (Code/controller_fixedcollins.py, lines 53-81) is the same text as      *)
(* Coadaptive.check_time and is covered by the same definition.            *)
(*                                                                         *)
(* Python values that may be a list or a bare int (segment_min,            *)
(* feedback_mode, use_torque inside the protocols) are tagged records, see *)
(* PyList, PyInt, so that iterating or subscripting an int raises TypeError *)
(* as it does in Python.                                                   *)
(***************************************************************************)
EXTENDS Integers, Sequences, FiniteSets, TLC

VARIABLES
    now,            \* value time.monotonic() returns, in seconds
    start_time,     \* self.start_time
    feedback_mode,  \* self.feedback_mode
    call,           \* the method call made in the last step: arguments and outcome
                    \* (mode: the feedback mode handed to trial_handler)
    trace,          \* field writes and boot commands of that call, in order
    ended,          \* protocols that returned False since start_time was last written
    restarted,      \* start_time has been overwritten since construction
    visited,        \* segment indices dispatched since start_time was last written
    idle,           \* seconds since a protocol last queried check_time, capped
    late            \* since start_time was last written, two successive queries
                    \* lay more than GapLimit seconds apart

vars == <<now, start_time, feedback_mode, call, trace, ended, restarted,
          visited, idle, late>>

----------------------------------------------------------------------------
(* Bounds of the model *)

MaxNow == 905          \* the clock stops advancing here
MaxSegs == 2           \* longest segment list handed to check_time directly

(* Amounts by which the clock advances between two calls: one second less  *)
(* than a 5 minute segment, exactly one segment, one second more.          *)
TickSteps == {5 * 60 - 1, 5 * 60, 5 * 60 + 1}

(* The length of a segment of guided_training, in seconds: polls no        *)
(* further apart than this are on time.  idle counts up to one more.       *)
GapLimit == 5 * 60
MaxIdle == GapLimit + 1

(* Durations (minutes) of the segment lists handed to check_time directly. *)
Durations == {-5, 0, 5}

----------------------------------------------------------------------------
(* Python values *)

PyList(s) == [kind |-> "list", val |-> s, n |-> 0]
PyInt(k)  == [kind |-> "int", val |-> <<>>, n |-> k]

SeqsUpTo(S, k) == UNION {[1..j -> S] : j \in 0..k}

(* segment_min arguments: every list over Durations up to MaxSegs entries, *)
(* and the bare ints the free and testing protocols pass.                  *)
Plans == {PyList(s) : s \in SeqsUpTo(Durations, MaxSegs)} \cup {PyInt(10), PyInt(30)}

ENDED == -1
NoIdx == ENDED - 1     \* current_idx was never assigned (the call raised before)

Protocols == {"free_training", "guided_training", "testing"}

----------------------------------------------------------------------------
(* Coadaptive.check_time *)

(* The running sums of s from position i on, acc being the sum before i. *)
RECURSIVE cumsum_from(_, _, _)
cumsum_from(s, i, acc) ==
    IF i > Len(s) THEN <<>>
    ELSE <<acc + s[i]>> \o cumsum_from(s, i + 1, acc + s[i])

(* The running sum left out: each time point is its own segment's length. *)
cumsum_none(s) == s

(* np.cumsum(s) *)
cumsum(s) == cumsum_from(s, 1, 0)

(* [i for i, val in enumerate(time_passed) if not val], 0-based indices *)
RECURSIVE not_passed_of(_, _)
not_passed_of(time_passed, i) ==
    IF i > Len(time_passed) THEN <<>>
    ELSE (IF time_passed[i] THEN <<>> ELSE <<i - 1>>) \o not_passed_of(time_passed, i + 1)

(* The comparison written the wrong way round. *)
time_passed_reversed(time_elapsed, time_points) ==
    [i \in DOMAIN time_points |-> time_elapsed < time_points[i]]

(* time_passed = (time_elapsed) > time_points *)
time_passed_of(time_elapsed, time_points) ==
    [i \in DOMAIN time_points |-> time_elapsed > time_points[i]]

(* The restart flag ignored: start_time is never reset. *)
restart_time_never(restart_trial, st, clock) == st

(* The reset made unconditionally. *)
restart_time_always(restart_trial, st, clock) == clock

(* The value of self.start_time line 68-69 leaves behind. *)
restart_time(restart_trial, st, clock) ==
    IF restart_trial THEN clock ELSE st

(* Lines 68-69 moved above line 65: start_time is reset before the         *)
(* conversion of segment_min can raise.                                    *)
check_time_reset_first(segment_min, restart_trial, st, clock) ==
    LET st1          == restart_time(restart_trial, st, clock)
        time_elapsed == clock - st1
        wrote        == IF restart_trial THEN << <<"self", "start_time">> >> ELSE <<>>
    IN  IF segment_min.kind = "int"
        THEN [raised |-> TRUE, start_time |-> st1, elapsed |-> 0, idx |-> NoIdx,
              trace |-> wrote]
        ELSE LET time_points == cumsum([i \in DOMAIN segment_min.val |->
                                           segment_min.val[i] * 60])
                 not_passed  == not_passed_of(time_passed_of(time_elapsed, time_points), 1)
             IN  [raised |-> FALSE, start_time |-> st1, elapsed |-> time_elapsed,
                  idx |-> IF not_passed # <<>> THEN not_passed[1] ELSE ENDED,
                  trace |-> wrote]

(* check_time(segment_min, restart_trial) called with self.start_time = st *)
(* while the clock reads clock.                                            *)
check_time(segment_min, restart_trial, st, clock) ==
    IF segment_min.kind = "int"
    THEN \* line 65: 'int' object is not iterable
         [raised |-> TRUE, start_time |-> st, elapsed |-> 0, idx |-> NoIdx,
          trace |-> <<>>]
    ELSE LET segment_sec  == [i \in DOMAIN segment_min.val |-> segment_min.val[i] * 60]
             time_points  == cumsum(segment_sec)
             st1          == restart_time(restart_trial, st, clock)
             time_elapsed == clock - st1
             time_passed  == time_passed_of(time_elapsed, time_points)
             not_passed   == not_passed_of(time_passed, 1)
         IN  [raised |-> FALSE, start_time |-> st1, elapsed |-> time_elapsed,
              idx |-> IF not_passed # <<>> THEN not_passed[1] ELSE ENDED,
              trace |-> IF restart_trial THEN << <<"self", "start_time">> >> ELSE <<>>]

----------------------------------------------------------------------------
(* Coadaptive.trial_handler *)

both(op) == << <<"left", op>>, <<"right", op>> >>

(* The right boot's read written as a second read of the left boot. *)
trial_handler_left_twice(fm, use_torque) ==
    [feedback_mode |-> fm,
     trace |-> << <<"self", "feedback_mode">>, <<"left", "read_data">>,
                  <<"left", "read_data">> >>
               \o (IF use_torque = 1 THEN both("run_collins_profile")
                                     ELSE both("zero_current"))]

(* The feedback mode stored after the boots were commanded. *)
trial_handler_store_last(fm, use_torque) ==
    [feedback_mode |-> fm,
     trace |-> both("read_data")
               \o (IF use_torque = 1 THEN both("run_collins_profile")
                                     ELSE both("zero_current"))
               \o << <<"self", "feedback_mode">> >>]

(* The torque test inverted. *)
trial_handler_swapped(fm, use_torque) ==
    [feedback_mode |-> fm,
     trace |-> << <<"self", "feedback_mode">> >> \o both("read_data")
               \o (IF use_torque = 1 THEN both("zero_current")
                                     ELSE both("run_collins_profile"))]

trial_handler(fm, use_torque) ==
    [feedback_mode |-> fm,
     trace |-> << <<"self", "feedback_mode">> >> \o both("read_data")
               \o (IF use_torque = 1 THEN both("run_collins_profile")
                                     ELSE both("zero_current"))]

----------------------------------------------------------------------------
(* The protocols *)

(* The boots cleared before check_time is called. *)
restart_effects_clear_first(queried, clears) == clears \o queried

(* Lines 152-156: check_time is called, with the effects queried, and then *)
(* the boots are cleared on a restart.                                     *)
restart_effects(queried, clears) == queried \o clears

(* trial_running as the ended branch (lines 160-164) leaves it *)
ended_result == "False"

(* The body the three protocols share (lines 148-166, 116-134, 179-197):   *)
(* segment_min, fms and uts are the three literals of the protocol.        *)
protocol(segment_min, fms, uts, restart_trial, st, fmode, clock) ==
    LET r      == check_time(segment_min, restart_trial, st, clock)
        clears == IF restart_trial THEN both("clear_gait_estimate") ELSE <<>>
    IN  IF r.raised
        THEN [ret |-> "TypeError", start_time |-> r.start_time, feedback_mode |-> fmode,
              elapsed |-> r.elapsed, idx |-> r.idx, use_torque |-> 0,
              mode |-> NoIdx, trace |-> r.trace]
        ELSE IF r.idx # ENDED
        THEN IF fms.kind = "int" \/ uts.kind = "int"
             THEN \* feedback_mode[current_idx]: 'int' object is not subscriptable
                  [ret |-> "TypeError", start_time |-> r.start_time,
                   feedback_mode |-> fmode, elapsed |-> r.elapsed, idx |-> r.idx,
                   use_torque |-> 0, mode |-> NoIdx, trace |-> restart_effects(r.trace, clears)]
             ELSE LET h == trial_handler(fms.val[r.idx + 1], uts.val[r.idx + 1])
                  IN  [ret |-> "True", start_time |-> r.start_time,
                       feedback_mode |-> h.feedback_mode, elapsed |-> r.elapsed,
                       idx |-> r.idx, use_torque |-> uts.val[r.idx + 1],
                       mode |-> fms.val[r.idx + 1],
                       trace |-> restart_effects(r.trace, clears) \o h.trace]
        ELSE [ret |-> ended_result, start_time |-> r.start_time, feedback_mode |-> fmode,
              elapsed |-> r.elapsed, idx |-> r.idx, use_torque |-> 0,
              mode |-> NoIdx,
              trace |-> restart_effects(r.trace, clears) \o both("zero_current")]

free_training(restart_trial, st, fmode, clock) ==
    protocol(PyInt(10), PyInt(-1), PyInt(1), restart_trial, st, fmode, clock)

guided_training(restart_trial, st, fmode, clock) ==
    protocol(PyList(<<5, 5>>), PyList(<<0, 1>>), PyList(<<1, 1>>), restart_trial, st, fmode, clock)

testing(restart_trial, st, fmode, clock) ==
    protocol(PyInt(30), PyInt(-1), PyInt(1), restart_trial, st, fmode, clock)

segment_min_of(p) ==
    CASE p = "free_training"   -> PyInt(10)
      [] p = "guided_training" -> PyList(<<5, 5>>)
      [] p = "testing"         -> PyInt(30)

run_protocol(p, restart_trial, st, fmode, clock) ==
    CASE p = "free_training"   -> free_training(restart_trial, st, fmode, clock)
      [] p = "guided_training" -> guided_training(restart_trial, st, fmode, clock)
      [] p = "testing"         -> testing(restart_trial, st, fmode, clock)

(* The session a protocol method works on: the fields of self it reads     *)
(* (start_time on line 72, feedback_mode on line 92) and the elapsed time  *)
(* they give.  free_training, guided_training and testing are methods of   *)
(* one object, so it is the same for each of them.                         *)
SessionSeenBy(p) == <<start_time, now - start_time, feedback_mode>>

----------------------------------------------------------------------------
(* State machine *)

NoCall(op) ==
    [op |-> op, restart |-> FALSE, plan |-> PyList(<<>>), at |-> 0,
     elapsed |-> 0, idx |-> NoIdx, ret |-> "None", use_torque |-> 0,
     mode |-> NoIdx, was_ended |-> FALSE, was_restarted |-> FALSE]

(* Coadaptive.__init__: start_time is the clock at construction, the       *)
(* feedback mode is -1, both boots get init_collins_profile.               *)
Init ==
    /\ now = 0
    /\ start_time = now
    /\ feedback_mode = -1
    /\ call = NoCall("__init__")
    /\ trace = both("init_collins_profile")
    /\ ended = {}
    /\ restarted = FALSE
    /\ visited = {}
    /\ idle = 0
    /\ late = FALSE

(* The monotonic clock advances between two calls; no method runs. *)
Tick ==
    \E dt \in TickSteps :
        /\ now + dt <= MaxNow
        /\ now' = now + dt
        /\ call' = NoCall("tick")
        /\ trace' = <<>>
        /\ idle' = (IF idle + dt > MaxIdle THEN MaxIdle ELSE idle + dt)
        /\ UNCHANGED <<start_time, feedback_mode, ended, restarted, visited, late>>

(* A direct call of check_time(segment_min, restart_trial). *)
CheckTime ==
    \E segment_min \in Plans, restart_trial \in BOOLEAN :
        \E r \in {check_time(segment_min, restart_trial, start_time, now)} :
        LET wrote == restart_trial /\ ~r.raised
        IN  /\ start_time' = r.start_time
            /\ call' = [op |-> "check_time", restart |-> restart_trial,
                        plan |-> segment_min, at |-> now, elapsed |-> r.elapsed,
                        idx |-> r.idx,
                        ret |-> IF r.raised THEN "TypeError" ELSE "idx",
                        use_torque |-> 0, mode |-> NoIdx,
                        was_ended |-> FALSE, was_restarted |-> restarted]
            /\ trace' = r.trace
            /\ ended' = IF wrote THEN {} ELSE ended
            /\ restarted' = (restarted \/ wrote)
            /\ visited' = IF wrote THEN {} ELSE visited
            /\ idle' = IF wrote THEN 0 ELSE idle
            /\ late' = IF wrote THEN FALSE ELSE late
            /\ UNCHANGED <<now, feedback_mode>>

(* A direct call of trial_handler(feedback_mode, use_torque). *)
TrialHandler ==
    \E fm \in {-1, 0, 1}, use_torque \in {0, 1} :
        \E h \in {trial_handler(fm, use_torque)} :
            /\ feedback_mode' = h.feedback_mode
            /\ trace' = h.trace
            /\ call' = [op |-> "trial_handler", restart |-> FALSE,
                        plan |-> PyList(<<>>), at |-> now, elapsed |-> 0,
                        idx |-> NoIdx, ret |-> "None", use_torque |-> use_torque,
                        mode |-> fm,
                        was_ended |-> FALSE, was_restarted |-> restarted]
            /\ UNCHANGED <<now, start_time, ended, restarted, visited, idle, late>>

(* What a protocol call does to visited, idle and late: queried tells      *)
(* whether its check_time returned, wrote whether that reset start_time,   *)
(* entered holds the index of the segment it handed to trial_handler.      *)
Polled(queried, wrote, entered) ==
    /\ visited' = IF ~queried THEN visited
                  ELSE (IF wrote THEN {} ELSE visited) \cup entered
    /\ idle' = IF queried THEN 0 ELSE idle
    /\ late' = IF ~queried THEN late
               ELSE IF wrote THEN FALSE ELSE (late \/ idle > GapLimit)

(* A call of protocol p: free_training, guided_training or testing. *)
Advance(p, restart_trial) ==
    \E r \in {run_protocol(p, restart_trial, start_time, feedback_mode, now)} :
    LET wrote == r.start_time # start_time \/ (restart_trial /\ r.trace # <<>>)
    IN  /\ start_time' = r.start_time
        /\ feedback_mode' = r.feedback_mode
        /\ trace' = r.trace
        /\ call' = [op |-> p, restart |-> restart_trial, plan |-> segment_min_of(p),
                    at |-> now, elapsed |-> r.elapsed, idx |-> r.idx, ret |-> r.ret,
                    use_torque |-> r.use_torque, mode |-> r.mode,
                    was_ended |-> (p \in ended), was_restarted |-> restarted]
        /\ ended' = IF r.ret = "False" THEN (IF wrote THEN {p} ELSE ended \cup {p})
                    ELSE IF wrote THEN {} ELSE ended
        /\ restarted' = (restarted \/ wrote)
        /\ Polled(r.idx # NoIdx, wrote, IF r.ret = "True" THEN {r.idx} ELSE {})
        /\ UNCHANGED now

FreeTraining == \E restart_trial \in BOOLEAN : Advance("free_training", restart_trial)

GuidedTraining == \E restart_trial \in BOOLEAN : Advance("guided_training", restart_trial)

Testing == \E restart_trial \in BOOLEAN : Advance("testing", restart_trial)

Next ==
    \/ Tick
    \/ CheckTime
    \/ TrialHandler
    \/ FreeTraining
    \/ GuidedTraining
    \/ Testing

Spec == Init /\ [][Next]_vars

----------------------------------------------------------------------------
(* Reading the trace of a call *)

Count(boot, op) == Cardinality({i \in DOMAIN trace : trace[i] = <<boot, op>>})

Boots == {"left", "right"}

Min(S) == CHOOSE x \in S : \A y \in S : x <= y

(* End of segment i of the list s of minutes, in seconds (i from 1). *)
RECURSIVE Boundary(_, _)
Boundary(s, i) == IF i = 0 THEN 0 ELSE Boundary(s, i - 1) + 60 * s[i]

(* A check_time result is recorded in call: by a direct call, or by a      *)
(* protocol whose check_time returned.                                     *)
Scheduled ==
    \/ call.op = "check_time" /\ call.ret = "idx"
    \/ call.op \in Protocols /\ call.idx # NoIdx

ValidPlan(p) ==
    /\ p.kind = "list"
    /\ p.val # <<>>
    /\ \A i \in DOMAIN p.val : p.val[i] > 0

BadPlan(p) ==
    /\ p.kind = "list"
    /\ p.val = <<>> \/ \E i \in DOMAIN p.val : p.val[i] <= 0

(* The 0-based index of the first segment of s whose end e is strictly     *)
(* before (Strict) or not after (Lax); ENDED when there is none.           *)
StrictIdx(s, e) ==
    LET S == {i \in DOMAIN s : e < Boundary(s, i)}
    IN  IF S = {} THEN ENDED ELSE Min(S) - 1

LaxIdx(s, e) ==
    LET S == {i \in DOMAIN s : e <= Boundary(s, i)}
    IN  IF S = {} THEN ENDED ELSE Min(S) - 1

Returned == call.op \in Protocols /\ call.ret \in {"True", "False"}

Dispatched == call.op = "trial_handler" \/ (call.op \in Protocols /\ call.ret = "True")

BootCommands == {i \in DOMAIN trace : trace[i][1] \in Boots}

TypeOK ==
    /\ now \in 0..MaxNow
    /\ start_time \in 0..MaxNow
    /\ start_time <= now
    /\ feedback_mode \in {-1, 0, 1}
    /\ ended \subseteq Protocols
    /\ restarted \in BOOLEAN
    /\ visited \subseteq {0, 1}
    /\ idle \in 0..MaxIdle
    /\ late \in BOOLEAN

----------------------------------------------------------------------------
(* Boot operations that fail *)

(* No method of Coadaptive has a try/except (lines 83-103, 152-166): when  *)
(* the k-th effect of a call, a boot command, raises, the effects before   *)
(* it have happened, the command was attempted once, nothing follows, and  *)
(* the exception leaves the method.                                        *)

(* The failing command issued a second time. *)
raise_at_retry(tr, k) == Append(SubSeq(tr, 1, k), tr[k])

raise_at(tr, k) == SubSeq(tr, 1, k)

Wrote(tr, field) == \E i \in DOMAIN tr : tr[i] = <<"self", field>>

(* The fields put back to what they were when the call began. *)
after_fault_rollback(tr, r, st, fmode) ==
    [start_time |-> st, feedback_mode |-> fmode]

(* The fields after a call that made the effects tr and then raised: r     *)
(* holds the values the call writes, st and fmode the values before it.    *)
after_fault(tr, r, st, fmode) ==
    [start_time    |-> IF Wrote(tr, "start_time") THEN r.start_time ELSE st,
     feedback_mode |-> IF Wrote(tr, "feedback_mode") THEN r.feedback_mode ELSE fmode]

BootCommandsOf(tr) == {i \in DOMAIN tr : tr[i][1] \in Boots}

(* A call of protocol p in which a boot command raises. *)
AdvanceFault(p, restart_trial) ==
    \E r \in {run_protocol(p, restart_trial, start_time, feedback_mode, now)} :
    \E k \in BootCommandsOf(r.trace) :
    \E tr \in {raise_at(r.trace, k)} :
    \E f \in {after_fault(tr, r, start_time, feedback_mode)} :
    LET wrote == Wrote(tr, "start_time")
    IN  /\ start_time' = f.start_time
        /\ feedback_mode' = f.feedback_mode
        /\ trace' = tr
        /\ call' = [op |-> p, restart |-> restart_trial, plan |-> segment_min_of(p),
                    at |-> now, elapsed |-> r.elapsed, idx |-> r.idx, ret |-> "Fault",
                    use_torque |-> r.use_torque, mode |-> r.mode,
                    was_ended |-> (p \in ended), was_restarted |-> restarted]
        /\ ended' = IF wrote THEN {} ELSE ended
        /\ restarted' = (restarted \/ wrote)
        /\ Polled(r.idx # NoIdx, wrote,
                  IF Wrote(tr, "feedback_mode") THEN {r.idx} ELSE {})
        /\ UNCHANGED now

ProtocolFault ==
    \E p \in Protocols, restart_trial \in BOOLEAN : AdvanceFault(p, restart_trial)

(* A direct call of trial_handler in which a boot command raises. *)
TrialHandlerFault ==
    \E fm \in {-1, 0, 1}, use_torque \in {0, 1} :
    \E h \in {trial_handler(fm, use_torque)} :
    \E k \in BootCommandsOf(h.trace) :
    \E tr \in {raise_at(h.trace, k)} :
    \E f \in {after_fault(tr, [start_time |-> start_time,
                                feedback_mode |-> h.feedback_mode],
                           start_time, feedback_mode)} :
        /\ feedback_mode' = f.feedback_mode
        /\ trace' = tr
        /\ call' = [op |-> "trial_handler", restart |-> FALSE,
                    plan |-> PyList(<<>>), at |-> now, elapsed |-> 0,
                    idx |-> NoIdx, ret |-> "Fault", use_torque |-> use_torque,
                    mode |-> fm,
                    was_ended |-> FALSE, was_restarted |-> restarted]
        /\ UNCHANGED <<now, start_time, ended, restarted, visited, idle, late>>

NextFault ==
    \/ Next
    \/ ProtocolFault
    \/ TrialHandlerFault

SpecFault == Init /\ [][NextFault]_vars

(* The boot commands of the last call, in order. *)
RECURSIVE BootTrace(_)
BootTrace(tr) ==
    IF tr = <<>> THEN <<>>
    ELSE (IF tr[1][1] \in Boots THEN <<tr[1]>> ELSE <<>>) \o BootTrace(Tail(tr))

IsPrefix(s, u) == Len(s) <= Len(u) /\ s = SubSeq(u, 1, Len(s))

(* The boot commands a call is to issue when no boot fails: for a protocol *)
(* the clears of a restart, then the dispatch of the selected segment or   *)
(* the zero torque of an ended trial; for trial_handler the dispatch.      *)
DispatchCommands(use_torque) ==
    both("read_data")
    \o (IF use_torque = 1 THEN both("run_collins_profile") ELSE both("zero_current"))

DueCommands ==
    IF call.op = "trial_handler" THEN DispatchCommands(call.use_torque)
    ELSE (IF call.restart THEN both("clear_gait_estimate") ELSE <<>>)
         \o (IF call.idx = ENDED THEN both("zero_current")
                                 ELSE DispatchCommands(call.use_torque))

----------------------------------------------------------------------------
(* Properties *)

(* C1: the terminal state is stable.  Once a protocol has returned False,  *)
(* every later call of it with restart_trial = False (start_time not       *)
(* rewritten in between), however far the clock has moved on, returns      *)
(* False, sends zero_current to the left and to the right boot, and sends  *)
(* run_collins_profile to neither.                                         *)
C1_TerminalStable ==
    (call.op \in Protocols /\ ~call.restart /\ call.was_ended)
        => /\ call.ret = "False"
           /\ \A b \in Boots : /\ Count(b, "zero_current") = 1
                               /\ Count(b, "run_collins_profile") = 0

(* guided_training returned False, the clock moved on by a segment or      *)
(* more, and it was polled again. *)
C1_Witness ==
    /\ call.op = "guided_training" /\ ~call.restart /\ call.was_ended
    /\ call.elapsed >= 900
    /\ call.ret = "False"
    /\ Count("left", "zero_current") = 1 /\ Count("right", "zero_current") = 1

(* C2: boundary rule as the specification states it.  For a non-empty      *)
(* list of positive durations check_time returns the smallest i with       *)
(* elapsed < T_i, ENDED if there is none; so at elapsed = T_i it returns   *)
(* i + 1 (ENDED after the last segment), and for [5, 5] it returns 0 at    *)
(* 299 s and 1 at 300 s.                                                   *)
C2_BoundaryStrict ==
    (Scheduled /\ ValidPlan(call.plan))
        => call.idx = StrictIdx(call.plan.val, call.elapsed)

(* C3: monotone terminality as the specification states it.  For a         *)
(* non-empty list of positive durations, whenever elapsed >= the sum of    *)
(* all durations (equality included) check_time returns ENDED.             *)
C3_EndedFromTotal ==
    (Scheduled /\ ValidPlan(call.plan)
         /\ call.elapsed >= Boundary(call.plan.val, Len(call.plan.val)))
        => call.idx = ENDED

C5_ClearOnRestart ==
    call.op \in Protocols
        => \A b \in Boots :
               IF call.restart THEN Count(b, "clear_gait_estimate") >= 1
                               ELSE Count(b, "clear_gait_estimate") = 0

(* C6: the single-segment protocols.  free_training (10 minutes) and       *)
(* testing (30 minutes): a call with restart_trial = True returns True,    *)
(* leaves feedback_mode at -1 and sends run_collins_profile to both boots; *)
(* so does every call within the duration; a call with restart_trial =     *)
(* False after the duration returns False with zero_current on both boots. *)
C6_SingleSegment ==
    call.op \in {"free_training", "testing"}
        => LET duration == 60 * call.plan.n
               running  == call.restart \/ call.at - start_time < duration
           IN  IF running
               THEN /\ call.ret = "True"
                    /\ feedback_mode = -1
                    /\ \A b \in Boots : Count(b, "run_collins_profile") = 1
               ELSE call.at - start_time > duration
                        => /\ call.ret = "False"
                           /\ \A b \in Boots : Count(b, "zero_current") = 1

(* C7 as stated, for the calls that return: every protocol call sends      *)
(* read_data exactly once to each boot, also when it finds the trial       *)
(* ended.                                                                  *)
C7_ReadEveryCall ==
    Returned => \A b \in Boots : Count(b, "read_data") = 1

(* C7, amended: every call that dispatches a segment (a protocol call that *)
(* returns True, or trial_handler itself, torque on or off) sends          *)
(* read_data exactly once to each boot; a protocol call that finds the     *)
(* trial ended (returns False) sends no read_data.                         *)
C7_ReadOnDispatch ==
    /\ Dispatched => \A b \in Boots : Count(b, "read_data") = 1
    /\ (call.op \in Protocols /\ call.ret = "False")
           => \A b \in Boots : Count(b, "read_data") = 0

(* The tick on which guided_training finds the trial ended: zero_current   *)
(* on both boots and no read. *)
C7_Witness ==
    /\ call.op = "guided_training" /\ call.ret = "False" /\ ~call.was_ended
    /\ trace = both("zero_current")

(* C8: in every protocol call that returns, and in every dispatch, each    *)
(* boot gets exactly one torque command: run_collins_profile when the      *)
(* segment has torque on, zero_current when it has torque off or the trial *)
(* has ended; never both, and no run_collins_profile in a call that        *)
(* returns False.                                                          *)
C8_OneTorqueCommand ==
    /\ (Dispatched /\ call.use_torque = 1)
           => \A b \in Boots : /\ Count(b, "run_collins_profile") = 1
                               /\ Count(b, "zero_current") = 0
    /\ (Dispatched /\ call.use_torque # 1)
           => \A b \in Boots : /\ Count(b, "run_collins_profile") = 0
                               /\ Count(b, "zero_current") = 1
    /\ (call.op \in Protocols /\ call.ret = "False")
           => \A b \in Boots : /\ Count(b, "run_collins_profile") = 0
                               /\ Count(b, "zero_current") = 1

(* guided_training dispatched its second segment with torque on. *)
C8_Witness ==
    /\ call.op = "guided_training" /\ call.ret = "True" /\ call.idx = 1
    /\ call.use_torque = 1
    /\ Count("left", "run_collins_profile") = 1
    /\ Count("right", "run_collins_profile") = 1

(* C9 as stated: a protocol call with restart_trial = False on a freshly   *)
(* constructed object, start_time never rewritten, fails with an error,    *)
(* selects no segment and commands no boot.                                *)
C9_MisuseRejected ==
    (call.op \in Protocols /\ ~call.restart /\ ~call.was_restarted)
        => /\ call.ret \notin {"True", "False"}
           /\ BootCommands = {}

(* C9, amended: guided_training(restart_trial = False) on a freshly        *)
(* constructed object is not rejected.  Elapsed time is counted from the   *)
(* construction, start_time stays the construction time, the call returns  *)
(* True and dispatches while elapsed <= 600 s and returns False after, and *)
(* either way each boot gets its torque command.                           *)
C9_FreshPollAccepted ==
    (call.op = "guided_training" /\ ~call.restart /\ ~call.was_restarted)
        => /\ start_time = 0
           /\ call.elapsed = call.at
           /\ call.ret = (IF call.elapsed <= 600 THEN "True" ELSE "False")
           /\ \A b \in Boots :
                  Count(b, "run_collins_profile") + Count(b, "zero_current") = 1

(* Polled 301 s after construction without any restart: segment 1 runs. *)
C9_Witness ==
    /\ call.op = "guided_training" /\ ~call.restart /\ ~call.was_restarted
    /\ call.elapsed = 301
    /\ call.idx = 1 /\ call.ret = "True"

(* C10 as stated: a segment list that is empty or holds a non-positive     *)
(* duration never reaches scheduling; check_time returns neither an index  *)
(* nor ENDED for it.                                                       *)
C10_BadPlanRejected ==
    (call.op = "check_time" /\ BadPlan(call.plan)) => call.ret # "idx"

(* C10, amended: nothing validates a segment list.  check_time accepts a   *)
(* list that is empty or holds a non-positive duration: it returns ENDED   *)
(* for the empty list, and otherwise the first index i with                *)
(* elapsed <= T_i (ENDED if there is none); it sends no boot command.      *)
C10_BadPlanScheduled ==
    (call.op = "check_time" /\ BadPlan(call.plan))
        => /\ call.ret = "idx"
           /\ call.idx = LaxIdx(call.plan.val, call.elapsed)
           /\ call.plan.val = <<>> => call.idx = ENDED
           /\ BootCommands = {}

(* A list with a negative first duration: 299 s in, its first segment,     *)
(* ending at -300 s, is over and the second, ending at 0 s, is too. *)
C10_Witness ==
    /\ call.op = "check_time" /\ call.plan.val = <<-5, 5>>
    /\ call.elapsed = 299
    /\ call.idx = ENDED

(* C11: boot faults pass straight through.  When a boot operation          *)
(* (clear_gait_estimate, read_data, run_collins_profile, zero_current)     *)
(* raises inside a call, the call ends with that fault, the failed         *)
(* operation was issued once and is the last command of the call: the      *)
(* commands issued are a prefix of the commands due, so nothing is         *)
(* retried and no zero_current is sent in compensation.                    *)
C11_FaultPassThrough ==
    call.ret = "Fault"
        => LET cmds == BootTrace(trace)
           IN  /\ cmds # <<>>
               /\ trace[Len(trace)] = cmds[Len(cmds)]
               /\ IsPrefix(cmds, DueCommands)
               /\ Count(cmds[Len(cmds)][1], cmds[Len(cmds)][2]) = 1

(* guided_training in its first segment: the read of the right boot        *)
(* raised, no torque command followed. *)
C11_Witness ==
    /\ call.op = "guided_training" /\ call.ret = "Fault" /\ call.idx = 0
    /\ trace[Len(trace)] = <<"right", "read_data">>
    /\ Count("left", "read_data") = 1
    /\ \A b \in Boots : Count(b, "zero_current") = 0

(* The segments of the plan before the one the last call selected: all of  *)
(* them when it found the trial ended. *)
SegmentsBefore ==
    IF call.idx = ENDED THEN 0..(Len(call.plan.val) - 1) ELSE 0..(call.idx - 1)

(* C12 as stated: whatever the gaps between the polls, once a restart has  *)
(* dispatched segment 0, every segment before the one a returning protocol *)
(* call selects (every segment, when it finds the trial ended) has been    *)
(* dispatched since: none is omitted.                                      *)
C12_NoSegmentOmitted ==
    (Returned /\ restarted /\ 0 \in visited)
        => \A j \in SegmentsBefore : j \in visited

(* C12, amended: segments are dispatched in plan order, never an earlier   *)
(* one after a later one; and none is omitted as long as no two successive *)
(* polls (the restart counting as the first) lie more than one segment     *)
(* length, 300 s, apart.  A longer gap can pass over a whole segment.      *)
C12_OrderedAndOnTime ==
    Returned
        => /\ call.ret = "True" => \A j \in visited : j <= call.idx
           /\ ~late => \A j \in SegmentsBefore : j \in visited

(* guided_training restarted and polled every 300 s: both segments were    *)
(* dispatched before the trial was found ended. *)
C12_Witness ==
    /\ call.op = "guided_training" /\ call.ret = "False"
    /\ restarted /\ ~late
    /\ visited = {0, 1}

(* C13 as stated: sessions are not shared.  A call of one protocol leaves  *)
(* the start time, the elapsed time and the feedback mode that every other *)
(* protocol sees unchanged.                                                *)
C13_SessionsSeparate ==
    [][call'.op \in Protocols
          => \A q \in Protocols \ {call'.op} : SessionSeenBy(q)' = SessionSeenBy(q)]_vars

(* C13, amended: the three protocols share the one session of their        *)
(* object, so what guided_training writes is what the others see.  Only a  *)
(* call of free_training or testing leaves the session every other         *)
(* protocol sees unchanged, restart or not: it raises before it writes.    *)
C13_OnlyGuidedWrites ==
    [][call'.op \in {"free_training", "testing"}
          => \A q \in Protocols \ {call'.op} : SessionSeenBy(q)' = SessionSeenBy(q)]_vars

(* testing(restart_trial = True) called during the second segment of       *)
(* guided_training: start_time and the strategy feedback mode stayed. *)
C13_Witness ==
    /\ call.op = "testing" /\ call.restart
    /\ start_time < call.at
    /\ feedback_mode = 1

(* Where the effect e stands in the trace of the last call (0: nowhere). *)
Pos(e) ==
    IF \E i \in DOMAIN trace : trace[i] = e
    THEN CHOOSE i \in DOMAIN trace : trace[i] = e
    ELSE 0

TorqueCommand == IF call.use_torque = 1 THEN "run_collins_profile" ELSE "zero_current"

(* C14: order of a dispatch.  In a call that dispatches a segment the      *)
(* feedback mode is stored first, then read_data goes to the left and to   *)
(* the right boot, and only after both reads the torque command goes to    *)
(* either boot.  Mode and torque are those of the segment check_time       *)
(* selected in the same call: in guided_training mode 0 in segment 0       *)
(* (elapsed <= 300 s), mode 1 in segment 1, torque on in both.             *)
C14_DispatchOrder ==
    Dispatched
        => /\ 0 < Pos(<<"self", "feedback_mode">>)
           /\ Pos(<<"self", "feedback_mode">>) < Pos(<<"left", "read_data">>)
           /\ Pos(<<"left", "read_data">>) < Pos(<<"right", "read_data">>)
           /\ \A b \in Boots : Pos(<<"right", "read_data">>) < Pos(<<b, TorqueCommand>>)
           /\ feedback_mode = call.mode
           /\ call.op = "guided_training"
                 => /\ call.mode = call.idx
                    /\ call.idx = (IF call.elapsed <= 300 THEN 0 ELSE 1)
                    /\ call.use_torque = 1

(* guided_training polled in its second segment: strategy feedback stored, *)
(* both boots read, then both run the profile. *)
C14_Witness ==
    /\ call.op = "guided_training" /\ call.ret = "True" /\ call.idx = 1
    /\ feedback_mode = 1
    /\ trace = << <<"self", "feedback_mode">> >> \o both("read_data")
               \o both("run_collins_profile")

(* C15 as stated: in a protocol call with restart_trial = True that        *)
(* returns, both boots are told to clear their gait estimate before        *)
(* check_time is called, that is before start_time is overwritten, and     *)
(* before any read_data or torque command of the call.                     *)
C15_ClearBeforeQuery ==
    (Returned /\ call.restart)
        => \A b \in Boots :
               /\ 0 < Pos(<<b, "clear_gait_estimate">>)
               /\ Pos(<<b, "clear_gait_estimate">>) < Pos(<<"self", "start_time">>)
               /\ \A i \in BootCommands :
                      trace[i][2] # "clear_gait_estimate"
                          => Pos(<<b, "clear_gait_estimate">>) < i

(* C15, amended: in such a call check_time runs first and overwrites       *)
(* start_time, then the left and the right boot are told to clear their    *)
(* gait estimate, and only then the feedback mode is stored and read_data  *)
(* or a torque command is sent.                                            *)
C15_QueryThenClear ==
    (Returned /\ call.restart)
        => /\ Pos(<<"self", "start_time">>) = 1
           /\ Pos(<<"left", "clear_gait_estimate">>) = 2
           /\ Pos(<<"right", "clear_gait_estimate">>) = 3
           /\ \A i \in DOMAIN trace :
                  i > 3 => /\ trace[i][2] \notin {"clear_gait_estimate", "start_time"}
                           /\ trace[i][2] \in {"feedback_mode", "read_data",
                                               "run_collins_profile", "zero_current"}
           /\ Len(trace) > 3

(* guided_training restarted 600 s after construction. *)
C15_Witness ==
    /\ call.op = "guided_training" /\ call.restart /\ call.at = 600
    /\ trace = << <<"self", "start_time">> >> \o both("clear_gait_estimate")
               \o << <<"self", "feedback_mode">> >> \o both("read_data")
               \o both("run_collins_profile")

(* C16: one writer for each field.  start_time changes only in a call of   *)
(* check_time or of a protocol with restart_trial = True, where check_time *)
(* sets it to the clock; a call with restart_trial = False leaves it.      *)
(* feedback_mode changes only where trial_handler stores it, so a protocol *)
(* call that finds the trial ended leaves it at the last dispatched value  *)
(* (1, strategy, after guided_training has run through) and does not put   *)
(* it back to -1.                                                          *)
C16_SingleWriter ==
    [][/\ start_time' # start_time
            => /\ call'.op \in Protocols \cup {"check_time"}
               /\ call'.restart
               /\ Wrote(trace', "start_time")
               /\ start_time' = now'
       /\ feedback_mode' # feedback_mode
            => /\ call'.op \in Protocols \cup {"trial_handler"}
               /\ call'.idx # ENDED
               /\ Wrote(trace', "feedback_mode")
               /\ feedback_mode' = call'.mode
       /\ (call'.op \in Protocols /\ call'.idx = ENDED)
            => feedback_mode' = feedback_mode]_vars

(* guided_training ran through both segments and was found ended: the      *)
(* feedback mode is still strategy. *)
C16_Witness ==
    /\ call.op = "guided_training" /\ ~call.restart /\ call.ret = "False"
    /\ visited = {0, 1}
    /\ feedback_mode = 1
    /\ start_time < call.at

(* What check_time(segment_min, False) returns in the current state. *)
CurrentIdx(segment_min) == check_time(segment_min, FALSE, start_time, now).idx

(* Index j is not an earlier segment than index i; nothing follows ENDED. *)
NotEarlier(i, j) == IF i = ENDED THEN j = ENDED ELSE (j = ENDED \/ j >= i)

(* C17: between two restarts the index check_time returns never goes back. *)
(* A call returns the index the clock and start_time of the moment give;   *)
(* and when the clock then advances with start_time left alone, the index  *)
(* a call with restart_trial = False would return for the same segment     *)
(* list is the same or a later one, and ENDED if it was ENDED.  Every      *)
(* later poll is reached through such steps, whatever the gap.             *)
C17_IndexMonotone ==
    /\ [](Scheduled => call.idx = CurrentIdx(call.plan))
    /\ [][(Scheduled /\ now' # now /\ start_time' = start_time)
             => \E segment_min \in {call.plan} :
                    NotEarlier(call.idx, CurrentIdx(segment_min)')]_vars

(* guided_training polled again after it had gone through segment 0,       *)
(* segment 1 and ENDED: still ENDED. *)
C17_Witness ==
    /\ call.op = "guided_training" /\ ~call.restart /\ call.was_ended
    /\ visited = {0, 1}
    /\ call.idx = ENDED

(* C18: a boot fault does not roll the session back.  When a boot command  *)
(* raises inside a protocol call with restart_trial = True, start_time     *)
(* stays reset to the time of the call; when read_data,                    *)
(* run_collins_profile or zero_current raises inside trial_handler,        *)
(* feedback_mode already holds the mode of the segment being dispatched.   *)
C18_NoRollback ==
    call.ret = "Fault"
        => /\ (call.op \in Protocols /\ call.restart)
                => /\ Wrote(trace, "start_time")
                   /\ start_time = call.at
           /\ (call.idx # ENDED
                  /\ trace[Len(trace)][2] \in {"read_data", "run_collins_profile",
                                               "zero_current"})
                => /\ Wrote(trace, "feedback_mode")
                   /\ feedback_mode = call.mode

(* guided_training restarted in its second segment and the read of the     *)
(* left boot raised: start_time is reset and the mode is back to           *)
(* metronome. *)
C18_Witness ==
    /\ call.op = "guided_training" /\ call.restart /\ call.ret = "Fault"
    /\ visited = {0}
    /\ call.at > 300
    /\ start_time = call.at
    /\ feedback_mode = 0
    /\ trace[Len(trace)] = <<"left", "read_data">>

====
